---------------------------- MODULE Spec2Model ----------------------------
(***************************************************************************)
(* A model of picowriter: an 8-switch chord keyboard on an RP2040.         *)
(*   core 1: keyboard_task -> decode_bits -> make_usb_key -> inter-core    *)
(*           FIFO (the "relay")                                            *)
(*   core 0: main loop: FIFO -> kc_put -> kc_buf -> kc_get -> hid_task     *)
(* All byte values are kept as naturals in 0..255.  A 32-bit word is kept  *)
(* as the integer in -2^31..2^31-1 with the same 32 bits, which is 0 for   *)
(* the same words and has the same four bytes.                             *)
(* The target (arm-none-eabi-gcc) has an unsigned plain char, so the       *)
(* codes 128, 129, 130 and 163 held in the `char` tables keep their value. *)
(***************************************************************************)
EXTENDS Integers, Sequences, FiniteSets, TLC

(***************************************************************************)
(* Program constants of kb-main.c                                          *)
(***************************************************************************)
SPC == 32
CTR == 6
A_C == 23
ALT == 31
GBP == 163
CER == 128
WIN == 129
WN2 == 130

THUMB_BIT == 16
CAPS_BIT == 32
NUM_BIT == 64
RPT_BIT == 128
MODIFIERS_MASK == 240
FINGERS_MASK == 15

KC_SZ == 8
KC_MSK == KC_SZ - 1

\* The token keyboard_task pushes when it starts
READY_TOKEN == 99

(***************************************************************************)
(* Constants of tinyusb's hid.h that kb-main.c and usb-stack.c name.       *)
(***************************************************************************)
HID_KEY_3 == 32
HID_KEY_4 == 33
HID_KEY_CONTROL_LEFT == 224
HID_KEY_ALT_LEFT == 226
HID_KEY_GUI_LEFT == 227
HID_KEY_ALT_RIGHT == 230
KEYBOARD_MODIFIER_LEFTCTRL == 1
KEYBOARD_MODIFIER_LEFTSHIFT == 2
KEYBOARD_MODIFIER_LEFTALT == 4
KEYBOARD_MODIFIER_LEFTGUI == 8

(***************************************************************************)
(* The chord tables, indexed in C by Fset (0..15); a TLA+ tuple is indexed *)
(* from 1, so entry Fset is table[Fset + 1].                               *)
(***************************************************************************)
basic_codes ==
    <<  0, 117, 115, 103, 111, 113, 110,  98,
      101, 118, 116,  44,  97,  10,  46, 109>>
thumb_codes ==
    << 32, 104, 107, 106,  99, 122, 121, 120,
      105, 108, 114, 119, 100,  39, 102, 112>>
numbr_codes ==
    << 49,  54,  36,  55,  48,   7,  35,  56,
       50, 163,  43,  57,  51,  45,  52,  53>>
nShft_codes ==
    <<  0,  95,  91,  62,  40,  47,  45, 123,
       61,  33,   9,  44,  43,  10,  46,  42>>
eShft_codes ==
    <<  0,  94,  93,  60,  41,  92, 126, 125,
       21, 124,  22,  59,  64,  10,  58,  23>>
eThmb_codes ==
    << 11,  16,  38,  17,  20,  37,  63,  18,
       12, 128,  45,  19,  13,  34,  14,  15>>
cmd_codes ==
    <<  0,  24,  25,  26,   7,  27,  28,  29,
       30,  31,   9,   1,  30,   2,   3,   4>>
cntrc_codes ==
    <<  0,   0,   0,  24,   0,   2,   4, 130,
        5,   6,   0, 129,   1,   0,  25,   0>>

(***************************************************************************)
(* Bit arithmetic on bytes.                                                *)
(***************************************************************************)
\* b & FINGERS_MASK: the low nibble
LowNibble(b) == b % (FINGERS_MASK + 1)

\* b & 0x70: a modifier mask that leaves the Repeat bit out.
HighNibble_NoRepeat(b) == ((b \div (FINGERS_MASK + 1)) % 8) * (FINGERS_MASK + 1)

\* b & MODIFIERS_MASK: the high nibble, in place
HighNibble(b) == (b \div (FINGERS_MASK + 1)) * (FINGERS_MASK + 1)

\* a | b for bytes, bit by bit from the least significant
RECURSIVE OrBits(_, _, _)
OrBits(a, b, n) ==
    IF n = 0 THEN 0
    ELSE (IF a % 2 = 1 \/ b % 2 = 1 THEN 1 ELSE 0)
         + 2 * OrBits(a \div 2, b \div 2, n - 1)

BitOr(a, b) == OrBits(a, b, 8)

\* toupper() applied to 'a'..'z' only
make_upper(cc) == IF cc >= 97 /\ cc <= 122 THEN cc - 32 ELSE cc

(***************************************************************************)
(* decode_bits.  The shift flags are file-scope statics; here they are     *)
(* passed in and handed back as the record st = [CAPS, NUM_LK, SHFTE,      *)
(* LCL_SHFT], and the result is [cc |-> returned char, st |-> flags after].*)
(* One operator per branch of the if / else-if chain.                      *)
(***************************************************************************)
Ret(cc, st) == [cc |-> cc, st |-> st]

\* FingerChord clearing every Transient flag, whichever table it reads.
FingerChord_ClearsAll(Fset, st) ==
    LET after == [st EXCEPT !.SHFTE = 0,
                            !.NUM_LK = IF st.NUM_LK = 1 THEN 0 ELSE st.NUM_LK,
                            !.CAPS = IF st.CAPS = 1 THEN 0 ELSE st.CAPS]
    IN  IF st.SHFTE # 0 THEN Ret(eShft_codes[Fset + 1], after)
        ELSE IF st.NUM_LK # 0 THEN Ret(nShft_codes[Fset + 1], after)
        ELSE IF st.CAPS # 0 THEN Ret(make_upper(basic_codes[Fset + 1]), after)
        ELSE Ret(basic_codes[Fset + 1], after)

\* (Mods == 0) && Fset
FingerChord(Fset, st) ==
    IF st.SHFTE # 0 THEN Ret(eShft_codes[Fset + 1], [st EXCEPT !.SHFTE = 0])
    ELSE IF st.NUM_LK # 0
         THEN Ret(nShft_codes[Fset + 1],
                  [st EXCEPT !.NUM_LK = IF st.NUM_LK = 1 THEN 0 ELSE st.NUM_LK])
    ELSE IF st.CAPS # 0
         THEN Ret(make_upper(basic_codes[Fset + 1]),
                  [st EXCEPT !.CAPS = IF st.CAPS = 1 THEN 0 ELSE st.CAPS])
    ELSE Ret(basic_codes[Fset + 1], st)

\* ThumbChord with the tiers tested in the opposite order: Caps before
\* NumLock before EShift.
ThumbChord_CapsFirst(Fset, st) ==
    IF st.CAPS # 0
    THEN Ret(make_upper(thumb_codes[Fset + 1]),
             [st EXCEPT !.CAPS = IF st.CAPS = 1 THEN 0 ELSE st.CAPS])
    ELSE IF st.NUM_LK # 0
         THEN Ret(numbr_codes[Fset + 1],
                  [st EXCEPT !.NUM_LK = IF st.NUM_LK = 1 THEN 0 ELSE st.NUM_LK])
    ELSE IF st.SHFTE # 0
         THEN Ret(eThmb_codes[Fset + 1], [st EXCEPT !.SHFTE = 0])
    ELSE Ret(thumb_codes[Fset + 1], st)

\* Mods == THUMB_BIT
ThumbChord(Fset, st) ==
    IF st.SHFTE # 0 THEN Ret(eThmb_codes[Fset + 1], [st EXCEPT !.SHFTE = 0])
    ELSE IF st.NUM_LK # 0
         THEN Ret(numbr_codes[Fset + 1],
                  [st EXCEPT !.NUM_LK = IF st.NUM_LK = 1 THEN 0 ELSE st.NUM_LK])
    ELSE IF st.CAPS # 0
         THEN Ret(make_upper(thumb_codes[Fset + 1]),
                  [st EXCEPT !.CAPS = IF st.CAPS = 1 THEN 0 ELSE st.CAPS])
    ELSE Ret(thumb_codes[Fset + 1], st)

\* NumChord as the case table of the specification words it: only with a
\* finger key down.
NumChord_FsetGuard(Fset, st) ==
    IF Fset = 0 THEN Ret(0, st)
    ELSE IF st.SHFTE # 0
         THEN Ret(cntrc_codes[Fset + 1], [st EXCEPT !.SHFTE = 0])
    ELSE Ret(numbr_codes[Fset + 1], st)

\* Mods == NUM_BIT (no test of Fset)
NumChord(Fset, st) ==
    IF st.SHFTE # 0 THEN Ret(cntrc_codes[Fset + 1], [st EXCEPT !.SHFTE = 0])
    ELSE Ret(numbr_codes[Fset + 1], st)

\* CapsAlone with the lock test off by one: a second press clears.
CapsAlone_NoLock(st) ==
    Ret(0, [st EXCEPT !.LCL_SHFT = 1,
                      !.CAPS = IF st.CAPS >= 1 THEN 0 ELSE st.CAPS + 1])

\* bits == CAPS_BIT
CapsAlone(st) ==
    Ret(0, [st EXCEPT !.LCL_SHFT = 1,
                      !.CAPS = IF st.CAPS >= 2 THEN 0 ELSE st.CAPS + 1])

\* Mods == CAPS_BIT with some finger key
CommandChord(Fset, st) == Ret(cmd_codes[Fset + 1], st)

\* NumLockToggle without the wrap from Locked to Off.
NumLockToggle_NoWrap(st) == Ret(0, [st EXCEPT !.NUM_LK = st.NUM_LK + 1])

\* bits == (THUMB_BIT | NUM_BIT)
NumLockToggle(st) ==
    Ret(0, [st EXCEPT !.NUM_LK = IF st.NUM_LK >= 2 THEN 0 ELSE st.NUM_LK + 1])

\* PanicClear that forgets the eShift flag.
PanicClear_KeepsEShift(st) == Ret(0, [st EXCEPT !.CAPS = 0, !.NUM_LK = 0])

\* bits == (THUMB_BIT | CAPS_BIT)
PanicClear(st) ==
    Ret(0, [st EXCEPT !.CAPS = 0, !.NUM_LK = 0, !.SHFTE = 0])

\* EShiftSet written like the other two toggles (press twice to lock).
EShiftSet_Toggle(st) ==
    Ret(0, [st EXCEPT !.SHFTE = IF st.SHFTE >= 2 THEN 0 ELSE st.SHFTE + 1])

\* bits == (NUM_BIT | CAPS_BIT)
EShiftSet(st) == Ret(0, [st EXCEPT !.SHFTE = 1])

\* CountermandChord reading the number table.
CountermandChord_Numbers(Fset, st) == Ret(numbr_codes[Fset + 1], st)

\* Mods == (NUM_BIT | CAPS_BIT) with some finger key
CountermandChord(Fset, st) == Ret(cntrc_codes[Fset + 1], st)

decode_bits(bits, st) ==
    LET Fset == LowNibble(bits)
        Mods == HighNibble(bits)
    IN  IF Mods = 0 /\ Fset # 0 THEN FingerChord(Fset, st)
        ELSE IF Mods = THUMB_BIT THEN ThumbChord(Fset, st)
        ELSE IF Mods = NUM_BIT THEN NumChord(Fset, st)
        ELSE IF bits = CAPS_BIT THEN CapsAlone(st)
        ELSE IF Mods = CAPS_BIT THEN CommandChord(Fset, st)
        ELSE IF bits = THUMB_BIT + NUM_BIT THEN NumLockToggle(st)
        ELSE IF bits = THUMB_BIT + CAPS_BIT THEN PanicClear(st)
        ELSE IF bits = NUM_BIT + CAPS_BIT THEN EShiftSet(st)
        ELSE IF Mods = NUM_BIT + CAPS_BIT THEN CountermandChord(Fset, st)
        ELSE Ret(0, st)

(***************************************************************************)
(* make_usb_key.  int_codes_table is indexed by the internal code (0..31)  *)
(* and conv_table by the ASCII code (0..127): entry c is table[c + 1].     *)
(* conv_table is tinyusb's HID_ASCII_TO_KEYCODE: <<needs shift, keycode>>. *)
(***************************************************************************)
int_codes_table ==
    <<  0,  76,  82,  79,  75,  73, 224,  88,
        0,  43,  40,  58,  59,  60,  61,  62,
       63,  64,  65,  66,  67,  68,  69,   0,
       74,  80,  77,  81,  78,  41,  42, 226>>

conv_table ==
    <<
      <<0,   0>>, <<0,   0>>, <<0,   0>>, <<0,   0>>, <<0,   0>>, <<0,   0>>, <<0,   0>>, <<0,   0>>,
      <<0,  42>>, <<0,  43>>, <<0,  40>>, <<0,   0>>, <<0,   0>>, <<0,  40>>, <<0,   0>>, <<0,   0>>,
      <<0,   0>>, <<0,   0>>, <<0,   0>>, <<0,   0>>, <<0,   0>>, <<0,   0>>, <<0,   0>>, <<0,   0>>,
      <<0,   0>>, <<0,   0>>, <<0,   0>>, <<0,  41>>, <<0,   0>>, <<0,   0>>, <<0,   0>>, <<0,   0>>,
      <<0,  44>>, <<1,  30>>, <<1,  52>>, <<1,  32>>, <<1,  33>>, <<1,  34>>, <<1,  36>>, <<0,  52>>,
      <<1,  38>>, <<1,  39>>, <<1,  37>>, <<1,  46>>, <<0,  54>>, <<0,  45>>, <<0,  55>>, <<0,  56>>,
      <<0,  39>>, <<0,  30>>, <<0,  31>>, <<0,  32>>, <<0,  33>>, <<0,  34>>, <<0,  35>>, <<0,  36>>,
      <<0,  37>>, <<0,  38>>, <<1,  51>>, <<0,  51>>, <<1,  54>>, <<0,  46>>, <<1,  55>>, <<1,  56>>,
      <<1,  31>>, <<1,   4>>, <<1,   5>>, <<1,   6>>, <<1,   7>>, <<1,   8>>, <<1,   9>>, <<1,  10>>,
      <<1,  11>>, <<1,  12>>, <<1,  13>>, <<1,  14>>, <<1,  15>>, <<1,  16>>, <<1,  17>>, <<1,  18>>,
      <<1,  19>>, <<1,  20>>, <<1,  21>>, <<1,  22>>, <<1,  23>>, <<1,  24>>, <<1,  25>>, <<1,  26>>,
      <<1,  27>>, <<1,  28>>, <<1,  29>>, <<0,  47>>, <<0,  49>>, <<0,  48>>, <<1,  35>>, <<1,  45>>,
      <<0,  53>>, <<0,   4>>, <<0,   5>>, <<0,   6>>, <<0,   7>>, <<0,   8>>, <<0,   9>>, <<0,  10>>,
      <<0,  11>>, <<0,  12>>, <<0,  13>>, <<0,  14>>, <<0,  15>>, <<0,  16>>, <<0,  17>>, <<0,  18>>,
      <<0,  19>>, <<0,  20>>, <<0,  21>>, <<0,  22>>, <<0,  23>>, <<0,  24>>, <<0,  25>>, <<0,  26>>,
      <<0,  27>>, <<0,  28>>, <<0,  29>>, <<1,  47>>, <<1,  49>>, <<1,  48>>, <<1,  53>>, <<0,  76>>
    >>

\* msg_blk: the word u_msg read back from the bytes p[0..3] on the
\* little-endian RP2040 (bit 31 is the top bit of p[3])
PackMsg(p0, p1, p2, p3) ==
    p0 + 256 * p1 + 65536 * p2
       + 16777216 * (IF p3 >= 128 THEN p3 - 256 ELSE p3)

\* msg_blk: byte p[i] of the word u
MsgByte(u, i) ==
    CASE i = 0 -> u % 256
      [] i = 1 -> (u \div 256) % 256
      [] i = 2 -> (u \div 65536) % 256
      [] i = 3 -> (u \div 16777216) % 256

\* The first if / else-if chain: what the code cc stands for.
Classify(cc) ==
    IF cc < SPC
    THEN LET k == int_codes_table[cc + 1]
         IN  IF k = HID_KEY_CONTROL_LEFT \/ k = HID_KEY_ALT_LEFT \/ cc = A_C
             THEN IF k # 0
                  THEN [Mods |-> 0, Kcode |-> 0, start_mods |-> k]
                  ELSE [Mods |-> 0, Kcode |-> k, start_mods |-> A_C]
             ELSE [Mods |-> 0, Kcode |-> k, start_mods |-> 0]
    ELSE IF cc < 128
    THEN [Mods |-> IF conv_table[cc + 1][1] # 0
                   THEN KEYBOARD_MODIFIER_LEFTSHIFT ELSE 0,
          Kcode |-> conv_table[cc + 1][2], start_mods |-> 0]
    ELSE IF cc = CER
    THEN [Mods |-> HID_KEY_ALT_RIGHT, Kcode |-> HID_KEY_4, start_mods |-> 0]
    ELSE IF cc = GBP
    THEN [Mods |-> KEYBOARD_MODIFIER_LEFTSHIFT, Kcode |-> HID_KEY_3,
          start_mods |-> 0]
    ELSE IF cc = WIN
    THEN [Mods |-> 0, Kcode |-> 0, start_mods |-> HID_KEY_GUI_LEFT]
    ELSE IF cc = WN2
    THEN [Mods |-> KEYBOARD_MODIFIER_LEFTGUI, Kcode |-> HID_KEY_GUI_LEFT,
          start_mods |-> 0]
    ELSE [Mods |-> 0, Kcode |-> 0, start_mods |-> 0]

\* pending_mods = start_mods, done only while no start is pending; a
\* start code that follows another clears pending_mods.
StartPending_SecondClears(start_mods, pending) ==
    IF pending # 0 THEN 0 ELSE start_mods

\* if (start_mods) pending_mods = start_mods: pending_mods after it,
\* whatever it was before
StartPending(start_mods, pending) == start_mods

\* The chained word with the modifier bits alone: the marker key codes
\* HID_KEY_CONTROL_LEFT, HID_KEY_ALT_LEFT, HID_KEY_GUI_LEFT left out.
ChainedWord_NoModKeycode(Kcode, pending) ==
    IF pending = A_C
    THEN PackMsg(Kcode, 0, 0,
                 KEYBOARD_MODIFIER_LEFTCTRL + KEYBOARD_MODIFIER_LEFTALT)
    ELSE IF pending = HID_KEY_CONTROL_LEFT
    THEN PackMsg(0, Kcode, 0, KEYBOARD_MODIFIER_LEFTCTRL)
    ELSE IF pending = HID_KEY_ALT_LEFT
    THEN PackMsg(0, Kcode, 0, KEYBOARD_MODIFIER_LEFTALT)
    ELSE IF pending = HID_KEY_GUI_LEFT
    THEN PackMsg(0, Kcode, 0, KEYBOARD_MODIFIER_LEFTGUI)
    ELSE 0

\* else if (pending_mods): the word built from the key code of this call
\* and the pending start.  code.u_msg starts as 0.
ChainedWord(Kcode, pending) ==
    IF pending = A_C
    THEN PackMsg(Kcode, HID_KEY_ALT_LEFT, HID_KEY_CONTROL_LEFT,
                 KEYBOARD_MODIFIER_LEFTCTRL + KEYBOARD_MODIFIER_LEFTALT)
    ELSE IF pending = HID_KEY_CONTROL_LEFT
    THEN PackMsg(0, Kcode, HID_KEY_CONTROL_LEFT, KEYBOARD_MODIFIER_LEFTCTRL)
    ELSE IF pending = HID_KEY_ALT_LEFT
    THEN PackMsg(0, Kcode, HID_KEY_ALT_LEFT, KEYBOARD_MODIFIER_LEFTALT)
    ELSE IF pending = HID_KEY_GUI_LEFT
    THEN PackMsg(0, Kcode, HID_KEY_GUI_LEFT, KEYBOARD_MODIFIER_LEFTGUI)
    ELSE 0

\* else (send the current key): code.p[3] = Mods; code.p[2] = Kcode
PlainWord(Kcode, Mods) == PackMsg(0, 0, Kcode, Mods)

\* Compose with the code's own modifier kept in a chained report: lane 3
\* is the pending modifier's bits or'ed with Mods.
Compose_OwnModsKept(c, pending) ==
    IF c.start_mods # 0
    THEN [pending_mods |-> StartPending(c.start_mods, pending),
          Kcode |-> 0, u_msg |-> 0]
    ELSE IF pending # 0
    THEN LET w == ChainedWord(c.Kcode, pending)
         IN  [pending_mods |-> 0, Kcode |-> c.Kcode,
              u_msg |-> PackMsg(MsgByte(w, 0), MsgByte(w, 1), MsgByte(w, 2),
                                BitOr(MsgByte(w, 3), c.Mods))]
    ELSE [pending_mods |-> pending, Kcode |-> c.Kcode,
          u_msg |-> PlainWord(c.Kcode, c.Mods)]

\* The second chain: the word built, the key code left to send and
\* pending_mods after the call.
Compose(c, pending) ==
    IF c.start_mods # 0
    THEN [pending_mods |-> StartPending(c.start_mods, pending),
          Kcode |-> 0, u_msg |-> 0]
    ELSE IF pending # 0
    THEN [pending_mods |-> 0, Kcode |-> c.Kcode,
          u_msg |-> ChainedWord(c.Kcode, pending)]
    ELSE [pending_mods |-> pending, Kcode |-> c.Kcode,
          u_msg |-> PlainWord(c.Kcode, c.Mods)]

(***************************************************************************)
(* The inter-core FIFO of the RP2040 (pico-sdk multicore_fifo), core 1     *)
(* to core 0: a queue of words, at most RelayDepth of them.  The design    *)
(* document calls it a single slot; the silicon holds 8 words.  Nothing    *)
(* below depends on the depth chosen.                                      *)
(***************************************************************************)
RelayDepth == 1

multicore_fifo_wready(relay) == Len(relay) < RelayDepth

multicore_fifo_rvalid(relay) == Len(relay) > 0

\* The push of make_usb_key done whether or not the FIFO has room.
RelaySend_NoReadyTest(u_msg, relay) == Append(relay, u_msg)

\* if (multicore_fifo_wready ()) multicore_fifo_push_blocking (code.u_msg):
\* the FIFO after it.  The push is made only with room, so it never waits.
RelaySend(u_msg, relay) ==
    IF multicore_fifo_wready(relay) THEN Append(relay, u_msg) ELSE relay

\* make_usb_key without the test if (Kcode): the word is handed to the
\* relay at every call.
make_usb_key_NoKcodeTest(cc, pending, relay) ==
    LET m == Compose(Classify(cc), pending)
    IN  [pending_mods |-> m.pending_mods,
         Kcode |-> m.Kcode,
         u_msg |-> m.u_msg,
         fifo |-> RelaySend(m.u_msg, relay)]

\* make_usb_key (cc) with pending_mods = pending and the FIFO = relay
make_usb_key(cc, pending, relay) ==
    LET m == Compose(Classify(cc), pending)
    IN  [pending_mods |-> m.pending_mods,
         Kcode |-> m.Kcode,
         u_msg |-> m.u_msg,
         fifo |-> IF m.Kcode # 0 THEN RelaySend(m.u_msg, relay) ELSE relay]

\* What one call make_usb_key (cc) did, for the history mk
CallRec(cc, pending, relay) ==
    LET m == make_usb_key(cc, pending, relay)
    IN  [cc |-> cc, pending |-> pending, after |-> m.pending_mods,
         Kcode |-> m.Kcode, u_msg |-> m.u_msg,
         room |-> multicore_fifo_wready(relay), sent |-> m.fifo # relay]

(***************************************************************************)
(* The output queue: kc_buf [KC_SZ], kc_in, kc_out.  A queue value is the  *)
(* record q = [buf, in, out]; buf is indexed 0..KC_SZ-1 as in C.           *)
(***************************************************************************)
\* i & KC_MSK, KC_MSK being 2^k - 1
MaskIdx(i) == i % (KC_MSK + 1)

\* kc_put with the "queue full" test left out.
kc_put_NoFullTest(uv, q) ==
    [q EXCEPT !.buf[q.in] = uv, !.in = MaskIdx(q.in + 1)]

\* kc_put that makes room on a full queue by dropping the oldest value.
kc_put_DropOldest(uv, q) ==
    LET next == MaskIdx(q.in + 1)
    IN  IF next = q.out
        THEN [q EXCEPT !.buf[q.in] = uv, !.in = next,
                       !.out = MaskIdx(q.out + 1)]
        ELSE [q EXCEPT !.buf[q.in] = uv, !.in = next]

\* kc_put: the queue after the call
kc_put(uv, q) ==
    LET next == MaskIdx(q.in + 1)
    IN  IF next = q.out THEN q
        ELSE [q EXCEPT !.buf[q.in] = uv, !.in = next]

\* kc_get without the "queue empty" test: the slot at kc_out is returned
\* and kc_out moves on, whatever kc_in is.
kc_get_NoEmptyTest(q) ==
    [uv |-> q.buf[q.out], q |-> [q EXCEPT !.out = MaskIdx(q.out + 1)]]

\* kc_get that returns the value stored last instead of the oldest.
kc_get_Newest(q) ==
    IF q.in = q.out THEN [uv |-> 0, q |-> q]
    ELSE [uv |-> q.buf[MaskIdx(q.in + KC_MSK)],
          q |-> [q EXCEPT !.in = MaskIdx(q.in + KC_MSK)]]

\* kc_get: the value returned and the queue after the call
kc_get(q) ==
    IF q.in = q.out THEN [uv |-> 0, q |-> q]
    ELSE [uv |-> q.buf[q.out], q |-> [q EXCEPT !.out = MaskIdx(q.out + 1)]]

(***************************************************************************)
(* send_hid_report (usb-stack.c): the keyboard report it hands to          *)
(* tud_hid_keyboard_report for a non-zero word btn, as the modifier byte   *)
(* and the six key codes keycode[0..5] (here keycode[1..6]).               *)
(***************************************************************************)
\* The key-down report with the key-code lanes read in ascending order.
KeyDownReport_AscendingLanes(btn) ==
    [Mods |-> MsgByte(btn, 3),
     keycode |-> <<MsgByte(btn, 0), MsgByte(btn, 1), MsgByte(btn, 2), 0, 0, 0>>]

\* Mods = code.p[3]; keycode[0] = code.p[2]; keycode[1] = code.p[1];
\* keycode[2] = code.p[0]; the rest 0
KeyDownReport(btn) ==
    [Mods |-> MsgByte(btn, 3),
     keycode |-> <<MsgByte(btn, 2), MsgByte(btn, 1), MsgByte(btn, 0), 0, 0, 0>>]

\* tud_hid_keyboard_report (REPORT_ID_KEYBOARD, 0, NULL), and the value
\* recorded when no report is made
NoKeys == [Mods |-> 0, keycode |-> <<0, 0, 0, 0, 0, 0>>]

(***************************************************************************)
(* State.                                                                  *)
(*   CAPS, NUM_LK, SHFTE, LCL_SHFT  the decoder's file-scope statics       *)
(* History kept for the properties (not program state):                    *)
(*   dec   the last decode_bits call: its argument, the flags before it    *)
(*         and the char it returned (bits = 0: no call yet)                *)
(*   run   how many times in a row the mask dec.bits has just been         *)
(*         decoded, and the flags before the first of them                 *)
(*   kc_buf, kc_in, kc_out  the output queue                               *)
(*   qh    the kc_put calls made so far, by the values passed and the      *)
(*         values stored; the values kc_get returned to QGet (hid_task     *)
(*         polls for ever: what it last took is in hid); and whether the   *)
(*         calls so far were all puts ("filling"), puts and then only      *)
(*         gets ("draining"), or neither                                   *)
(*   kpc   where keyboard_task is: "start" before it pushes the ready      *)
(*         token, "scan" in its loop                                       *)
(*   sum_bits, pending_mods  keyboard_task's accumulator and make_usb_key's*)
(*         static                                                          *)
(*   held  the non-zero samples read since the switches were last all up   *)
(*   poll  the last pass of the scan loop that read a switch down or       *)
(*         decoded: the sample, the samples held before it, the argument   *)
(*         and result of decode_bits, whether make_usb_key ran, the word   *)
(*         it built, whether the word went into the FIFO, and pending_mods *)
(*         and the FIFO before the pass                                    *)
(*   tally counts: chords begun, press-release cycles completed, calls of  *)
(*         decode_bits, reports make_usb_key left unsent for lack of room  *)
(*   mk    the calls of make_usb_key so far, oldest first: the code passed,*)
(*         pending_mods before and after, the key code left to send, the   *)
(*         word built, whether the FIFO had room and whether the word was  *)
(*         pushed                                                          *)
(*   fifo  the inter-core FIFO, oldest word first                          *)
(*   mpc   where main is: "wait" at its first pop, "loop" at the top of    *)
(*         its loop, "hid" before hid_task                                 *)
(*   g     the word main's first pop returned (-1: not yet)                *)
(*   has_keyboard_key  send_hid_report's static                            *)
(*   hid   the last due hid_task: the word kc_get returned to it, whether  *)
(*         the queue was empty at that call, what it did with the word,    *)
(*         the keyboard report it made, and how many non-zero words kc_get *)
(*         has returned to hid_task so far                                 *)
(***************************************************************************)
VARIABLES CAPS, NUM_LK, SHFTE, LCL_SHFT, dec, run,
          kc_buf, kc_in, kc_out, qh,
          kpc, sum_bits, pending_mods, held, poll, tally, mk,
          fifo,
          mpc, g, has_keyboard_key, hid

decoderVars == <<CAPS, NUM_LK, SHFTE, LCL_SHFT, dec, run>>
queueVars == <<kc_buf, kc_in, kc_out, qh>>
scanVars == <<kpc, sum_bits, pending_mods, held, poll, tally, mk>>
mainVars == <<mpc, g, has_keyboard_key, hid>>

vars == <<CAPS, NUM_LK, SHFTE, LCL_SHFT, dec, run,
          kc_buf, kc_in, kc_out, qh,
          kpc, sum_bits, pending_mods, held, poll, tally, mk,
          fifo,
          mpc, g, has_keyboard_key, hid>>

\* Longest run of one repeated mask that `run` counts; a longer run starts
\* a new count.
MaxRun == 3

ShiftSt == [CAPS |-> CAPS, NUM_LK |-> NUM_LK, SHFTE |-> SHFTE,
            LCL_SHFT |-> LCL_SHFT]

ShiftInit ==
    /\ CAPS = 0
    /\ NUM_LK = 0
    /\ SHFTE = 0
    /\ LCL_SHFT = 0

HistInit ==
    /\ dec = [bits |-> 0, cc |-> 0, pre |-> ShiftSt]
    /\ run = [n |-> 0, start |-> ShiftSt]

\* The effect of one call decode_bits (bits) on the statics, with its record.
CallDecode(bits) ==
    LET r == decode_bits(bits, ShiftSt)
    IN  /\ CAPS' = r.st.CAPS
        /\ NUM_LK' = r.st.NUM_LK
        /\ SHFTE' = r.st.SHFTE
        /\ LCL_SHFT' = r.st.LCL_SHFT
        /\ dec' = [bits |-> bits, cc |-> r.cc, pre |-> ShiftSt]
        /\ run' = IF dec.bits = bits /\ run.n < MaxRun
                  THEN [run EXCEPT !.n = run.n + 1]
                  ELSE [n |-> 1, start |-> ShiftSt]

\* The effect of one call make_usb_key (cc) on its static and the FIFO,
\* with its record.
CallCompose(cc) ==
    LET m == make_usb_key(cc, pending_mods, fifo)
    IN  /\ pending_mods' = m.pending_mods
        /\ fifo' = m.fifo
        /\ mk' = Append(mk, CallRec(cc, pending_mods, fifo))

Queue == [buf |-> kc_buf, in |-> kc_in, out |-> kc_out]

QueueInit ==
    /\ kc_buf = [i \in 0..KC_MSK |-> 0]
    /\ kc_in = 0
    /\ kc_out = 0
    /\ qh = [puts |-> <<>>, stored |-> <<>>, gets |-> <<>>, phase |-> "filling"]

NoPoll == [kind |-> "none", all_bits |-> 0, held |-> <<>>, arg |-> 0,
           cc |-> 0, called |-> FALSE, Kcode |-> 0, u_msg |-> 0,
           sent |-> FALSE, pending |-> 0, fifo |-> <<>>]

ScanInit ==
    /\ kpc = "start"
    /\ sum_bits = 0
    /\ pending_mods = 0
    /\ held = <<>>
    /\ poll = NoPoll
    /\ tally = [chords |-> 0, cycles |-> 0, decodes |-> 0, unsent |-> 0]
    /\ mk = <<>>

MainInit ==
    /\ mpc = "wait"
    /\ g = -1
    /\ has_keyboard_key = FALSE
    /\ hid = [btn |-> 0, empty |-> TRUE, did |-> "none", report |-> NoKeys,
              n |-> 0]

\* The state when main has launched keyboard_task on core 1.
Init == ShiftInit /\ HistInit /\ QueueInit /\ ScanInit /\ MainInit /\ fifo = <<>>

(***************************************************************************)
(* SpecDecode: the decoder alone.  Every completed chord mask 1..255 (the  *)
(* scanner never decodes 0) is decoded in every reachable flag state.      *)
(***************************************************************************)
DecodeStep ==
    /\ \E bits \in 1..255 : CallDecode(bits)
    /\ UNCHANGED <<queueVars, scanVars, mainVars, fifo>>

NextDecode == DecodeStep

SpecDecode == Init /\ [][NextDecode]_vars

(***************************************************************************)
(* SpecQueue: the output queue alone, under every order of kc_put and      *)
(* kc_get calls.  kc_put never looks at its argument; the k-th call passes *)
(* the value k, so that every stored value is told from every other.       *)
(***************************************************************************)
\* kc_put calls in a behaviour
MaxPuts == 10
\* kc_get calls in a behaviour
MaxGets == 10

SetQueue(q) ==
    /\ kc_buf' = q.buf
    /\ kc_in' = q.in
    /\ kc_out' = q.out

\* The history qh after kc_put (uv) left the queue as q
NotePut(uv, q) ==
    [qh EXCEPT !.puts = Append(@, uv),
               !.stored = IF q.in # kc_in THEN Append(@, uv) ELSE @,
               !.phase = IF @ = "filling" THEN @ ELSE "mixed"]

\* The history qh after kc_get returned uv
NoteGet(uv) ==
    [qh EXCEPT !.gets = Append(@, uv),
               !.phase = IF @ = "mixed" THEN @ ELSE "draining"]

QPut ==
    /\ Len(qh.puts) < MaxPuts
    /\ LET uv == Len(qh.puts) + 1
           q == kc_put(uv, Queue)
       IN  /\ SetQueue(q)
           /\ qh' = NotePut(uv, q)
    /\ UNCHANGED <<decoderVars, scanVars, mainVars, fifo>>

QGet ==
    /\ Len(qh.gets) < MaxGets
    /\ LET r == kc_get(Queue)
       IN  /\ SetQueue(r.q)
           /\ qh' = NoteGet(r.uv)
    /\ UNCHANGED <<decoderVars, scanVars, mainVars, fifo>>

NextQueue == QPut \/ QGet

SpecQueue == Init /\ [][NextQueue]_vars

(***************************************************************************)
(* Spec: the two cores together.                                           *)
(*   core 1  KeyboardStart, then KeyboardPoll for ever                     *)
(*   core 0  MainHandshake, then MainRelay and HidTask in turn for ever    *)
(* The cores share the FIFO only; each pass of keyboard_task's loop tests  *)
(* and writes it in one place (lines 379-381) and so does each pass of     *)
(* main's (616-618), the only writer never waiting once its test passed,   *)
(* so a pass is one step.                                                  *)
(***************************************************************************)
\* The samples gpio_get_all can return in a model run, as chord masks
\* (inverted, shifted and masked, lines 521-524): middle (4), index (8),
\* Caps with index and pinky (0x29) and Repeat (0x80).  Their unions give
\* characters ('o', 'e', 'a'), commands (ALT, cursor up) and unmapped chords.
Samples == {4, 8, 41, 128}

\* Chords begun in a behaviour
MaxChords == 2
\* Passes of the scan loop that see a switch down, per chord
MaxHold == 2

\* sum_bits |= all_bits written as an assignment.
Accumulate_Overwrite(sum, all_bits) == all_bits

\* sum_bits |= all_bits
Accumulate(sum, all_bits) == BitOr(sum, all_bits)

\* multicore_fifo_push_blocking (99): waits for room
KeyboardStart ==
    /\ kpc = "start"
    /\ multicore_fifo_wready(fifo)
    /\ fifo' = Append(fifo, READY_TOKEN)
    /\ kpc' = "scan"
    /\ UNCHANGED <<decoderVars, queueVars, mainVars,
                   sum_bits, pending_mods, held, poll, tally, mk>>

\* One pass of the scan loop that reads a switch down.
PollPress(all_bits) ==
    /\ sum_bits' = Accumulate(sum_bits, all_bits)
    /\ held' = Append(held, all_bits)
    /\ poll' = [NoPoll EXCEPT !.kind = "press", !.all_bits = all_bits,
                              !.held = held, !.pending = pending_mods,
                              !.fifo = fifo]
    /\ tally' = [tally EXCEPT
                   !.chords = IF held = <<>> THEN @ + 1 ELSE @]
    /\ UNCHANGED <<decoderVars, pending_mods, fifo, mk>>

\* make_usb_key called for every chord, also one that decoded to no code.
ComposeCalled_Always(cc) == TRUE

\* if (cc): whether keyboard_task calls make_usb_key for the code cc
ComposeCalled(cc) == cc # 0

\* One pass that reads all switches up with sum_bits != 0: decode, compose
\* and send, clear the accumulator.
PollDecode ==
    LET r == decode_bits(sum_bits, ShiftSt)
        m == make_usb_key(r.cc, pending_mods, fifo)
        called == ComposeCalled(r.cc)
    IN  /\ CallDecode(sum_bits)
        /\ IF called
           THEN CallCompose(r.cc)
           ELSE UNCHANGED <<pending_mods, fifo, mk>>
        /\ sum_bits' = 0
        /\ poll' = [kind |-> "decode", all_bits |-> 0, held |-> held,
                    arg |-> sum_bits, cc |-> r.cc, called |-> called,
                    Kcode |-> IF called THEN m.Kcode ELSE 0,
                    u_msg |-> IF called THEN m.u_msg ELSE 0,
                    sent |-> called /\ m.fifo # fifo,
                    pending |-> pending_mods, fifo |-> fifo]
        /\ tally' = [tally EXCEPT
                       !.cycles = IF held # <<>> THEN @ + 1 ELSE @,
                       !.decodes = @ + 1,
                       !.unsent = IF called /\ m.Kcode # 0 /\ m.fifo = fifo
                                  THEN @ + 1 ELSE @]

\* One pass of keyboard_task's loop, for each sample in S that
\* gpio_get_all can return, and for all switches up.
KeyboardPollOn(S) ==
    /\ kpc = "scan"
    /\ \E all_bits \in S \cup {0} :
          /\ all_bits # 0 =>
                /\ Len(held) < MaxHold
                /\ held = <<>> => tally.chords < MaxChords
          /\ IF all_bits # 0 THEN PollPress(all_bits)
             ELSE IF sum_bits # 0 THEN PollDecode
             ELSE /\ tally' = [tally EXCEPT
                              !.cycles = IF held # <<>> THEN @ + 1 ELSE @]
                  /\ UNCHANGED <<decoderVars, sum_bits, pending_mods, poll,
                                 fifo, mk>>
          /\ all_bits = 0 => held' = <<>>
    /\ UNCHANGED <<kpc, queueVars, mainVars>>

KeyboardPoll == KeyboardPollOn(Samples)

\* main entering its loop without the first pop: whatever keyboard_task
\* pushed first is still in the FIFO.
MainHandshake_NoPop ==
    /\ mpc = "wait"
    /\ mpc' = "loop"
    /\ UNCHANGED <<decoderVars, queueVars, scanVars, has_keyboard_key, hid,
                   fifo, g>>

\* uint32_t g = multicore_fifo_pop_blocking (): waits for a word
MainHandshake ==
    /\ mpc = "wait"
    /\ multicore_fifo_rvalid(fifo)
    /\ g' = Head(fifo)
    /\ fifo' = Tail(fifo)
    /\ mpc' = "loop"
    /\ UNCHANGED <<decoderVars, queueVars, scanVars, has_keyboard_key, hid>>

\* The top of main's loop with the kc_put forgotten: the word popped is
\* discarded.
MainRelay_Discard ==
    /\ mpc = "loop"
    /\ IF multicore_fifo_rvalid(fifo)
       THEN fifo' = Tail(fifo)
       ELSE UNCHANGED fifo
    /\ mpc' = "hid"
    /\ UNCHANGED <<decoderVars, scanVars, queueVars, g, has_keyboard_key, hid>>

\* The top of main's loop reading the FIFO without popping it: the word
\* is queued and stays in the FIFO.
MainRelay_Peek ==
    /\ mpc = "loop"
    /\ IF multicore_fifo_rvalid(fifo)
       THEN /\ SetQueue(kc_put(Head(fifo), Queue))
            /\ qh' = NotePut(Head(fifo), kc_put(Head(fifo), Queue))
       ELSE UNCHANGED <<kc_buf, kc_in, kc_out, qh>>
    /\ mpc' = "hid"
    /\ UNCHANGED <<decoderVars, scanVars, g, has_keyboard_key, hid, fifo>>

\* The top of main's loop: a pending word is popped and queued.
MainRelay ==
    /\ mpc = "loop"
    /\ IF multicore_fifo_rvalid(fifo)
       THEN /\ SetQueue(kc_put(Head(fifo), Queue))
            /\ qh' = NotePut(Head(fifo), kc_put(Head(fifo), Queue))
            /\ fifo' = Tail(fifo)
       ELSE UNCHANGED <<kc_buf, kc_in, kc_out, qh, fifo>>
    /\ mpc' = "hid"
    /\ UNCHANGED <<decoderVars, scanVars, g, has_keyboard_key, hid>>

\* hid_task with a send_hid_report that never sets has_keyboard_key: the
\* key-down report is made and not remembered.
HidRun_KeyDownForgotten(due, suspended, ready) ==
    /\ mpc = "hid"
    /\ mpc' = "loop"
    /\ IF ~due
       THEN UNCHANGED <<kc_buf, kc_in, kc_out, hid>>
       ELSE LET r == kc_get(Queue)
                seen == [btn |-> r.uv, empty |-> kc_in = kc_out,
                         did |-> "none", report |-> NoKeys,
                         n |-> IF r.uv # 0 THEN hid.n + 1 ELSE hid.n]
            IN  /\ SetQueue(r.q)
                /\ hid' = IF suspended /\ r.uv # 0
                          THEN [seen EXCEPT !.did = "wakeup"]
                          ELSE IF ~ready
                          THEN [seen EXCEPT !.did = "skip"]
                          ELSE IF r.uv # 0
                          THEN [seen EXCEPT !.did = "down",
                                            !.report = KeyDownReport(r.uv)]
                          ELSE seen
    /\ UNCHANGED <<decoderVars, scanVars, qh, g, fifo, has_keyboard_key>>

\* hid_task when the 10 ms interval has passed (due) or has not, with
\* the values tud_suspended () and tud_hid_ready () return.
HidRun(due, suspended, ready) ==
    /\ mpc = "hid"
    /\ mpc' = "loop"
    /\ IF ~due
       THEN UNCHANGED <<kc_buf, kc_in, kc_out, has_keyboard_key, hid>>
       ELSE LET r == kc_get(Queue)
                seen == [btn |-> r.uv, empty |-> kc_in = kc_out,
                         did |-> "none", report |-> NoKeys,
                         n |-> IF r.uv # 0 THEN hid.n + 1 ELSE hid.n]
            IN  /\ SetQueue(r.q)
                /\ IF suspended /\ r.uv # 0
                   THEN /\ hid' = [seen EXCEPT !.did = "wakeup"]
                        /\ UNCHANGED has_keyboard_key
                   ELSE IF ~ready
                   THEN /\ hid' = [seen EXCEPT !.did = "skip"]
                        /\ UNCHANGED has_keyboard_key
                   ELSE IF r.uv # 0
                   THEN /\ hid' = [seen EXCEPT !.did = "down",
                                               !.report = KeyDownReport(r.uv)]
                        /\ has_keyboard_key' = TRUE
                   ELSE IF has_keyboard_key
                   THEN /\ hid' = [seen EXCEPT !.did = "up"]
                        /\ has_keyboard_key' = FALSE
                   ELSE /\ hid' = seen
                        /\ UNCHANGED has_keyboard_key
    /\ UNCHANGED <<decoderVars, scanVars, qh, g, fifo>>

\* hid_task with tud_suspended () and tud_hid_ready () decided by the
\* environment
HidPass(due) ==
    \E suspended, ready \in BOOLEAN : HidRun(due, suspended, ready)

HidTask == \E due \in BOOLEAN : HidPass(due)

Next ==
    \/ KeyboardStart
    \/ KeyboardPoll
    \/ MainHandshake
    \/ MainRelay
    \/ HidTask

Spec == Init /\ [][Next]_vars

(***************************************************************************)
(* SpecLive: the two cores with the reporting loop scheduled fairly.  Core *)
(* 0 runs for ever, so the handshake, the top of main's loop and hid_task  *)
(* are each taken when they are the next thing main does (weak fairness);  *)
(* the loop turns many times in 10 ms, so among hid_task's calls there is  *)
(* always a later one that finds the interval passed (strong fairness of   *)
(* the due pass).  No fairness is asked of core 1: the keys may stay up.   *)
(* The switches read are the middle and the index finger, whose chords are *)
(* 'o' (0x04), 'e' (0x08) and 'a' (0x0C).                                  *)
(***************************************************************************)
LiveSamples == {4, 8}

KeyboardPollLive == KeyboardPollOn(LiveSamples)

HidDue == HidPass(TRUE)

NextLive ==
    \/ KeyboardStart
    \/ KeyboardPollLive
    \/ MainHandshake
    \/ MainRelay
    \/ HidTask

Fairness ==
    /\ WF_vars(MainHandshake)
    /\ WF_vars(MainRelay)
    /\ WF_vars(HidTask)
    /\ SF_vars(HidDue)

SpecLive == Init /\ [][NextLive]_vars /\ Fairness

(***************************************************************************)
(* SpecReport: SpecLive with the HID endpoint ready again and again.  The  *)
(* host polls the endpoint every few milliseconds while the device is      *)
(* configured, so among hid_task's due calls there is always a later one   *)
(* that finds tud_hid_ready () true (strong fairness of the ready pass).   *)
(***************************************************************************)
HidReady == \E suspended \in BOOLEAN : HidRun(TRUE, suspended, TRUE)

FairReport == Fairness /\ SF_vars(HidReady)

SpecReport == Init /\ [][NextLive]_vars /\ FairReport

(***************************************************************************)
(* SpecCompose: the composer and everything after it.  The scan loop and   *)
(* the decoder are replaced by their result: make_usb_key is called with   *)
(* any of the codes ComposeCodes, each one an entry of a chord table, in   *)
(* any order, at most MaxCalls times, while core 0 runs as in Spec.        *)
(*   CTR  cntrc_codes[9]     ALT  cmd_codes[9]      A_C  eShft_codes[15]   *)
(*   WIN  cntrc_codes[11]    WN2  cntrc_codes[7]    CER  eThmb_codes[9]    *)
(*   GBP  numbr_codes[9]     'a'  basic_codes[12]   'A'  make_upper ('a')  *)
(***************************************************************************)
ComposeCodes == {CTR, ALT, A_C, WIN, WN2, CER, GBP, 97, 65}

\* make_usb_key calls in a behaviour of SpecCompose
MaxCalls == 3

ComposeStep ==
    /\ kpc = "scan"
    /\ Len(mk) < MaxCalls
    /\ \E cc \in ComposeCodes : CallCompose(cc)
    /\ UNCHANGED <<decoderVars, queueVars, mainVars,
                   kpc, sum_bits, held, poll, tally>>

NextCompose ==
    \/ KeyboardStart
    \/ ComposeStep
    \/ MainHandshake
    \/ MainRelay
    \/ HidTask

SpecCompose == Init /\ [][NextCompose]_vars

(***************************************************************************)
(* Properties of the decoder, checked under SpecDecode.                    *)
(***************************************************************************)
\* A character chord: no modifier with a finger key, or Thumb the only
\* modifier.
IsCharChord(bits) ==
    \/ bits \div 16 = 0 /\ bits % 16 # 0
    \/ bits \div 16 = 1

FlagsUnchanged ==
    /\ CAPS = dec.pre.CAPS
    /\ NUM_LK = dec.pre.NUM_LK
    /\ SHFTE = dec.pre.SHFTE

\* C4: Caps toggle law.  From Caps Off, one, two and three consecutive
\* decodes of Caps-alone (0x20) leave Caps Transient, Locked and Off; each
\* decode of 0x20 returns no code and leaves NumLock and EShift as they
\* were; with NumLock and EShift Off a character chord decoded with Caps
\* Transient leaves Caps Off, and with Caps Locked leaves it Locked.
C4_CapsToggleLaw ==
    /\ (dec.bits = 32 /\ run.start.CAPS = 0) =>
          /\ run.n = 1 => CAPS = 1
          /\ run.n = 2 => CAPS = 2
          /\ run.n = 3 => CAPS = 0
    /\ dec.bits = 32 =>
          /\ dec.cc = 0
          /\ NUM_LK = dec.pre.NUM_LK
          /\ SHFTE = dec.pre.SHFTE
    /\ (IsCharChord(dec.bits) /\ dec.pre.NUM_LK = 0 /\ dec.pre.SHFTE = 0) =>
          /\ dec.pre.CAPS = 1 => CAPS = 0
          /\ dec.pre.CAPS = 2 => CAPS = 2

\* Three Caps-alone decodes in a row from Off have brought Caps back to Off.
C4_Witness ==
    /\ dec.bits = 32
    /\ run.n = 3
    /\ run.start.CAPS = 0
    /\ dec.pre.CAPS = 2
    /\ CAPS = 0

\* C5: NumLock toggle law.  From NumLock Off, one, two and three
\* consecutive decodes of Thumb+Num-alone (0x50) leave NumLock Transient,
\* Locked and Off; each returns no code and leaves Caps and EShift as they
\* were; with EShift Off a character chord decoded with NumLock Transient
\* leaves it Off, and with NumLock Locked leaves it Locked.
C5_NumLockToggleLaw ==
    /\ (dec.bits = 80 /\ run.start.NUM_LK = 0) =>
          /\ run.n = 1 => NUM_LK = 1
          /\ run.n = 2 => NUM_LK = 2
          /\ run.n = 3 => NUM_LK = 0
    /\ dec.bits = 80 =>
          /\ dec.cc = 0
          /\ CAPS = dec.pre.CAPS
          /\ SHFTE = dec.pre.SHFTE
    /\ (IsCharChord(dec.bits) /\ dec.pre.SHFTE = 0) =>
          /\ dec.pre.NUM_LK = 1 => NUM_LK = 0
          /\ dec.pre.NUM_LK = 2 => NUM_LK = 2

\* Three Thumb+Num decodes in a row from Off have brought NumLock back to Off.
C5_Witness ==
    /\ dec.bits = 80
    /\ run.n = 3
    /\ run.start.NUM_LK = 0
    /\ dec.pre.NUM_LK = 2
    /\ NUM_LK = 0

\* C6: EShift is single-shot.  After any decode of Num+Caps-alone (0x60),
\* however often repeated, EShift is Transient (1) and no other value; a
\* character chord decoded while EShift is Transient leaves EShift Off,
\* whatever Caps and NumLock are and whatever code comes out; EShift is
\* never anything but Off or Transient.
C6_EShiftSingleShot ==
    /\ dec.bits = 96 => SHFTE = 1
    /\ (IsCharChord(dec.bits) /\ dec.pre.SHFTE = 1) => SHFTE = 0
    /\ SHFTE \in {0, 1}

\* A character chord has consumed a Transient EShift while Caps and
\* NumLock were both Locked.
C6_Witness ==
    /\ IsCharChord(dec.bits)
    /\ dec.pre.SHFTE = 1
    /\ dec.pre.CAPS = 2
    /\ dec.pre.NUM_LK = 2
    /\ SHFTE = 0

\* C7: Countermand routing.  For every non-zero Fset, Num+Caps+Fset in any
\* flag state, and Num+Fset decoded while EShift is Transient, return the
\* countermand table's entry for Fset, which is never the number table's;
\* the EShift-then-Num route also leaves EShift Off.
C7_CountermandRouting ==
    \A F \in 1..15 :
        /\ dec.bits = 96 + F =>
              /\ dec.cc = cntrc_codes[F + 1]
              /\ dec.cc # numbr_codes[F + 1]
        /\ (dec.bits = 64 + F /\ dec.pre.SHFTE = 1) =>
              /\ dec.cc = cntrc_codes[F + 1]
              /\ dec.cc # numbr_codes[F + 1]
              /\ SHFTE = 0

\* The chord 0x49 (Num + index + pinky) decoded with EShift Transient returned
\* the countermand CTR and cleared EShift.
C7_Witness ==
    /\ dec.bits = 73
    /\ dec.pre.SHFTE = 1
    /\ dec.cc = CTR
    /\ SHFTE = 0

\* C8 as claimed: decoding Num-alone (0x40) returns no code and leaves
\* Caps, NumLock and EShift unchanged in every flag state.
C8_NumAloneIsNoOp ==
    dec.bits = 64 => (dec.cc = 0 /\ FlagsUnchanged)

\* C8 as amended: Num-alone (0x40) takes the Num-only branch with Fset = 0.
\* With EShift Off it returns '1' (entry 0 of the number table) and leaves
\* the three flags unchanged; with EShift Transient it returns no code
\* (entry 0 of the countermand table) and clears EShift, leaving Caps and
\* NumLock unchanged.
C8_NumAloneTakesNumBranch ==
    dec.bits = 64 =>
        /\ CAPS = dec.pre.CAPS
        /\ NUM_LK = dec.pre.NUM_LK
        /\ dec.pre.SHFTE = 0 => (dec.cc = 49 /\ SHFTE = 0)
        /\ dec.pre.SHFTE = 1 => (dec.cc = 0 /\ SHFTE = 0)

\* Num-alone decoded with all flags Off has returned '1'.
C8_Witness ==
    /\ dec.bits = 64
    /\ dec.pre.SHFTE = 0
    /\ dec.cc = 49

\* C10: Panic clear.  Decoding Thumb+Caps-alone (0x30) in any flag state
\* leaves Caps, NumLock and EShift all Off and returns no code.
C10_PanicClear ==
    dec.bits = 48 =>
        /\ CAPS = 0
        /\ NUM_LK = 0
        /\ SHFTE = 0
        /\ dec.cc = 0

\* Thumb+Caps decoded with Caps and NumLock Locked and EShift Transient.
C10_Witness ==
    /\ dec.bits = 48
    /\ dec.pre.CAPS = 2
    /\ dec.pre.NUM_LK = 2
    /\ dec.pre.SHFTE = 1
    /\ CAPS = 0
    /\ NUM_LK = 0
    /\ SHFTE = 0

(***************************************************************************)
(* Properties of the output queue, checked under SpecQueue.                *)
(***************************************************************************)
\* The calls so far are exactly n kc_put calls on the empty queue followed
\* by kc_get calls only.
PutsThenGets(n) == qh.phase = "draining" /\ Len(qh.puts) = n

\* The i-th kc_get returned the i-th value put up to the cap-th, and the
\* empty sentinel 0 after that.
DrainedFirst(cap) ==
    \A i \in 1..Len(qh.gets) :
        qh.gets[i] = IF i <= cap THEN qh.puts[i] ELSE 0

\* C1 as claimed: from the empty queue, 9 kc_put calls and then kc_get calls
\* return the first 8 values put, in put order, and only then the sentinel.
C1_NinePutsKeepEight == PutsThenGets(9) => DrainedFirst(8)

\* C1 as amended: from the empty queue, 9 kc_put calls and then kc_get calls
\* return the first 7 values put (KC_SZ - 1: one slot of the ring stays
\* free), in put order, and only then the sentinel; the 8th and the 9th
\* put are discarded.
C1_NinePutsKeepSeven == PutsThenGets(9) => DrainedFirst(KC_SZ - 1)

\* Nine puts, then eight gets: seven values and the sentinel.
C1_Witness ==
    /\ PutsThenGets(9)
    /\ Len(qh.gets) = 8
    /\ qh.gets[7] = 7
    /\ qh.gets[8] = 0

HasBit(x, i) == (x \div (2 ^ i)) % 2 = 1

\* The byte whose bit i is set exactly when some sample of h has it set.
UnionOfSamples(h) ==
    LET W(i) == IF \E k \in 1..Len(h) : HasBit(h[k], i) THEN 2 ^ i ELSE 0
    IN  W(0) + W(1) + W(2) + W(3) + W(4) + W(5) + W(6) + W(7)

\* C3: Chord accumulation.  decode_bits is called once for every completed
\* press-to-release cycle and at no other time (as many calls as cycles,
\* at every moment); the pass that calls it read all switches released, and
\* a pass that read a switch down calls nothing; its argument is the
\* bitwise OR of every sample read since the accumulator was last zero, the
\* accumulator being that OR throughout; and after the call the accumulator
\* is zero, whether or not a code came out.
C3_ChordAccumulation ==
    /\ tally.decodes = tally.cycles
    /\ sum_bits = UnionOfSamples(held)
    /\ poll.kind = "decode" =>
          /\ poll.all_bits = 0
          /\ poll.held # <<>>
          /\ poll.arg = UnionOfSamples(poll.held)
          /\ dec.bits = poll.arg
          /\ sum_bits = 0
    /\ poll.kind = "press" =>
          /\ poll.all_bits # 0
          /\ sum_bits # 0
          /\ tally.cycles < tally.chords

\* The second chord of a run, pressed as index and then middle finger, was
\* decoded as 0x0C to 'a'.
C3_Witness ==
    /\ poll.kind = "decode"
    /\ poll.held = <<8, 4>>
    /\ poll.arg = 12
    /\ poll.cc = 97
    /\ tally.decodes = 2
    /\ tally.cycles = 2
    /\ sum_bits = 0

\* The masks C9 lists: Repeat set; Thumb+Num or Thumb+Caps the modifier
\* bits with a finger key; Thumb, Caps and Num all set.
UnmappedMask(bits) ==
    \/ bits \div 128 = 1
    \/ bits \div 16 \in {3, 5} /\ bits % 16 # 0
    \/ (bits \div 16) % 8 = 7

\* Every value the three flags take (LCL_SHFT is written, never read).
FlagStates ==
    [CAPS : 0..2, NUM_LK : 0..2, SHFTE : 0..1, LCL_SHFT : 0..1]

\* decode_bits on every listed mask, in every flag state: no code, flags
\* as they were.
UnmappedDecodeIsNoOp ==
    \A bits \in 1..255 : \A st \in FlagStates :
        UnmappedMask(bits) => decode_bits(bits, st) = Ret(0, st)

\* C9: Unmapped chords are no-ops.  Every listed mask decodes, in every
\* flag state, to no code and unchanged flags; and when keyboard_task
\* completes such a chord, make_usb_key is not called: pending_mods stays
\* as it was and nothing is pushed to the relay.
C9_UnmappedChordsAreNoOps ==
    /\ UnmappedDecodeIsNoOp
    /\ (poll.kind = "decode" /\ UnmappedMask(poll.arg)) =>
          /\ poll.cc = 0
          /\ CAPS = dec.pre.CAPS
          /\ NUM_LK = dec.pre.NUM_LK
          /\ SHFTE = dec.pre.SHFTE
          /\ ~poll.called
          /\ ~poll.sent
          /\ pending_mods = poll.pending

\* A Repeat chord (Repeat + index) completed while an ALT start was
\* pending and the relay was empty: nothing composed, ALT still pending.
C9_Witness ==
    /\ poll.kind = "decode"
    /\ poll.arg = 136
    /\ poll.pending = HID_KEY_ALT_LEFT
    /\ poll.fifo = <<>>
    /\ pending_mods = HID_KEY_ALT_LEFT
    /\ ~poll.called


(***************************************************************************)
(* Properties of the composer, checked under SpecCompose.                  *)
(***************************************************************************)
\* The modifier-start codes: Control, Alt, Alt+Ctrl, GUI as a modifier.
StartCodes == {CTR, ALT, A_C, WIN}

\* The printable ASCII characters
Printable(cc) == cc >= SPC /\ cc < 127

\* Byte lane i of the word u
Lane(u, i) == MsgByte(u, i)

\* One of the three key-code lanes of u holds the key code k.
HasKey(u, k) == \E i \in 0..2 : Lane(u, i) = k

\* The modifier lane of u has the modifier bit b (a power of 2) set.
HasMod(u, b) == (Lane(u, 3) \div b) % 2 = 1

\* The key code the ASCII table gives the character cc
AsciiKey(cc) == conv_table[cc + 1][2]

\* What a report chained to the start code sc must carry besides the
\* character's key code: the modifier bits and the marker key codes.
ChainBits(sc) ==
    CASE sc = CTR -> {KEYBOARD_MODIFIER_LEFTCTRL}
      [] sc = ALT -> {KEYBOARD_MODIFIER_LEFTALT}
      [] sc = WIN -> {KEYBOARD_MODIFIER_LEFTGUI}
      [] sc = A_C -> {KEYBOARD_MODIFIER_LEFTCTRL, KEYBOARD_MODIFIER_LEFTALT}

ChainKeys(sc) ==
    CASE sc = CTR -> {HID_KEY_CONTROL_LEFT}
      [] sc = ALT -> {HID_KEY_ALT_LEFT}
      [] sc = WIN -> {HID_KEY_GUI_LEFT}
      [] sc = A_C -> {HID_KEY_CONTROL_LEFT, HID_KEY_ALT_LEFT}

\* The word u carries the character cc chained to the start code sc.
ChainedReport(u, sc, cc) ==
    /\ \A b \in ChainBits(sc) : HasMod(u, b)
    /\ \A k \in ChainKeys(sc) : HasKey(u, k)
    /\ HasKey(u, AsciiKey(cc))

\* Calls i and i + 1 of make_usb_key: a start code, then a printable
\* character.
StartThenChar(i) ==
    /\ i + 1 <= Len(mk)
    /\ mk[i].cc \in StartCodes
    /\ Printable(mk[i + 1].cc)

StartMarker(sc) ==
    CASE sc = CTR -> HID_KEY_CONTROL_LEFT
      [] sc = ALT -> HID_KEY_ALT_LEFT
      [] sc = WIN -> HID_KEY_GUI_LEFT
      [] sc = A_C -> A_C

\* Call i + 1 of make_usb_key is a start code that follows a start code.
StartAfterStart(i) ==
    /\ i + 1 <= Len(mk)
    /\ mk[i].cc \in StartCodes
    /\ mk[i + 1].cc \in StartCodes

\* C12 as claimed: Consecutive modifier-start codes.  A start code that
\* follows a start code forwards no report and leaves PendingModifier
\* clear, so that a character composed next is sent without any chained
\* modifier.
C12_SecondStartClearsPending ==
    \A i \in 1..Len(mk) :
        StartAfterStart(i) =>
            /\ ~mk[i + 1].sent
            /\ mk[i + 1].after = 0
            /\ (i + 2 <= Len(mk) /\ Printable(mk[i + 2].cc)) =>
                  mk[i + 2].u_msg = PlainWord(AsciiKey(mk[i + 2].cc),
                                              Classify(mk[i + 2].cc).Mods)

\* C12 as amended: a start code that follows a start code forwards no
\* report and replaces PendingModifier by its own marker, so that a
\* character composed next is chained to the last start code (and to that
\* one only), after which PendingModifier is clear.
C12_LastStartWins ==
    \A i \in 1..Len(mk) :
        StartAfterStart(i) =>
            /\ ~mk[i + 1].sent
            /\ mk[i + 1].after = StartMarker(mk[i + 1].cc)
            /\ (i + 2 <= Len(mk) /\ Printable(mk[i + 2].cc)) =>
                  /\ mk[i + 2].pending = StartMarker(mk[i + 1].cc)
                  /\ ChainedReport(mk[i + 2].u_msg, mk[i + 1].cc,
                                   mk[i + 2].cc)
                  /\ \A k \in ChainKeys(mk[i].cc) \ ChainKeys(mk[i + 1].cc) :
                        ~HasKey(mk[i + 2].u_msg, k)
                  /\ mk[i + 2].after = 0

\* A Control start, an Alt start and then 'a': the report forwarded is
\* Alt + 'a'.
C12_Witness ==
    /\ Len(mk) = 3
    /\ mk[1].cc = CTR
    /\ mk[2].cc = ALT
    /\ mk[2].after = HID_KEY_ALT_LEFT
    /\ mk[3].cc = 97
    /\ mk[3].sent
    /\ pending_mods = 0

\* Every code decode_bits can hand to make_usb_key: what it returns for
\* some mask in some flag state, 0 left out.
DecoderCodes ==
    {decode_bits(bits, st).cc : bits \in 1..255, st \in FlagStates} \ {0}

\* Every value pending_mods takes
Pendings ==
    {0, HID_KEY_CONTROL_LEFT, HID_KEY_ALT_LEFT, HID_KEY_GUI_LEFT, A_C}

\* make_usb_key on every code of the decoder, with every pending start,
\* into an empty relay: a word goes out only with a key code left to send,
\* which is then in a key-code lane of the word, and never for a start
\* code.
PushNeedsKeyCode ==
    \A cc \in DecoderCodes : \A pending \in Pendings :
        LET m == make_usb_key(cc, pending, <<>>)
        IN  /\ m.fifo # <<>> => (m.Kcode # 0 /\ HasKey(m.u_msg, m.Kcode))
            /\ cc \in StartCodes => m.fifo = <<>>

\* C14: A report is pushed to the relay only when the key code of the
\* current call is non-zero.  A call with a modifier-start code (Control,
\* Alt, Alt+Ctrl, GUI as a modifier) pushes nothing, and every word pushed,
\* and so every word the main loop passes on to kc_put, has a non-zero
\* key-code lane.
C14_PushOnlyWithKeyCode ==
    /\ PushNeedsKeyCode
    /\ \A i \in 1..Len(mk) :
          /\ mk[i].sent => (mk[i].Kcode # 0 /\ HasKey(mk[i].u_msg, mk[i].Kcode))
          /\ mk[i].cc \in StartCodes => ~mk[i].sent
    /\ \A j \in 1..Len(qh.puts) :
          \E l \in 0..2 : Lane(qh.puts[j], l) # 0

\* A GUI start composed while the relay had room pushed nothing, and the
\* character after it was pushed and passed on to kc_put.
C14_Witness ==
    /\ Len(mk) >= 2
    /\ mk[1].cc = WIN
    /\ mk[1].room
    /\ ~mk[1].sent
    /\ mk[2].sent
    /\ qh.puts = <<mk[2].u_msg>>

\* C15 as claimed: PackedReport lane layout.  In every report forwarded
\* lane 3 is the modifier bitmask; a single un-chained key is carried in
\* lane 0 with lanes 1 and 2 zero; and the reporter takes the key codes of
\* the keyboard report from lanes 0, 1, 2 in that order.
C15_PrimaryKeyInLaneZero ==
    /\ \A i \in 1..Len(mk) :
          (mk[i].sent /\ mk[i].pending = 0) =>
              /\ Lane(mk[i].u_msg, 3) = Classify(mk[i].cc).Mods
              /\ Lane(mk[i].u_msg, 0) = mk[i].Kcode
              /\ Lane(mk[i].u_msg, 1) = 0
              /\ Lane(mk[i].u_msg, 2) = 0
    /\ hid.did = "down" =>
          /\ hid.report.Mods = Lane(hid.btn, 3)
          /\ hid.report.keycode =
                <<Lane(hid.btn, 0), Lane(hid.btn, 1), Lane(hid.btn, 2), 0, 0, 0>>

\* C15 as amended: in every report forwarded lane 3 is the modifier
\* bitmask and the key codes run from lane 2 down: a single un-chained key
\* is carried in lane 2 with lanes 1 and 0 zero; a key chained to a
\* Control, Alt or GUI start has the start's marker key code in lane 2, its
\* own in lane 1 and lane 0 zero; a key chained to an Alt+Ctrl start has the
\* Control key code in lane 2, the Alt key code in lane 1 and its own in
\* lane 0.  The reporter reads the lanes in that same order: the modifier
\* byte of the keyboard report from lane 3, its key codes 0, 1, 2 from
\* lanes 2, 1, 0, and the other three key codes are zero.
C15_KeysFromLaneTwoDown ==
    /\ \A i \in 1..Len(mk) :
          mk[i].sent =>
              LET u == mk[i].u_msg
                  L == <<Lane(u, 3), Lane(u, 2), Lane(u, 1), Lane(u, 0)>>
                  K == mk[i].Kcode
              IN  CASE mk[i].pending = 0 ->
                          L = <<Classify(mk[i].cc).Mods, K, 0, 0>>
                    [] mk[i].pending = A_C ->
                          L = <<KEYBOARD_MODIFIER_LEFTCTRL
                                   + KEYBOARD_MODIFIER_LEFTALT,
                                HID_KEY_CONTROL_LEFT, HID_KEY_ALT_LEFT, K>>
                    [] mk[i].pending = HID_KEY_CONTROL_LEFT ->
                          L = <<KEYBOARD_MODIFIER_LEFTCTRL,
                                HID_KEY_CONTROL_LEFT, K, 0>>
                    [] mk[i].pending = HID_KEY_ALT_LEFT ->
                          L = <<KEYBOARD_MODIFIER_LEFTALT,
                                HID_KEY_ALT_LEFT, K, 0>>
                    [] mk[i].pending = HID_KEY_GUI_LEFT ->
                          L = <<KEYBOARD_MODIFIER_LEFTGUI,
                                HID_KEY_GUI_LEFT, K, 0>>
    /\ hid.did = "down" =>
          /\ \E i \in 1..Len(mk) : mk[i].sent /\ mk[i].u_msg = hid.btn
          /\ hid.report.Mods = Lane(hid.btn, 3)
          /\ hid.report.keycode =
                <<Lane(hid.btn, 2), Lane(hid.btn, 1), Lane(hid.btn, 0), 0, 0, 0>>

\* The reporter has made the key-down report of Alt+Ctrl + 'a', and an
\* un-chained 'A' was forwarded after it.
C15_Witness ==
    /\ Len(mk) = 3
    /\ mk[1].cc = A_C
    /\ mk[2].cc = 97
    /\ mk[2].sent
    /\ mk[3].cc = 65
    /\ mk[3].sent
    /\ hid.did = "down"
    /\ hid.btn = mk[2].u_msg
    /\ hid.report.keycode =
          <<HID_KEY_CONTROL_LEFT, HID_KEY_ALT_LEFT, AsciiKey(97), 0, 0, 0>>

\* The right-Alt bit of the HID modifier byte: the right-hand modifiers
\* are the left-hand ones four bits up.
KEYBOARD_MODIFIER_RIGHTALT == 16 * KEYBOARD_MODIFIER_LEFTALT

\* C16: Currency symbols.  With nothing pending and room in the relay,
\* composing the Euro code (128) forwards a report whose modifier lane is
\* the right-Alt modifier bit and whose key code is digit 4, and composing
\* the pound code (163) forwards a report whose modifier lane is the
\* left-Shift modifier bit and whose key code is digit 3.
C16_CurrencyReports ==
    \A i \in 1..Len(mk) :
        (mk[i].pending = 0 /\ mk[i].room) =>
            /\ mk[i].cc = CER =>
                  /\ mk[i].sent
                  /\ Lane(mk[i].u_msg, 3) = KEYBOARD_MODIFIER_RIGHTALT
                  /\ mk[i].Kcode = HID_KEY_4
                  /\ HasKey(mk[i].u_msg, HID_KEY_4)
            /\ mk[i].cc = GBP =>
                  /\ mk[i].sent
                  /\ Lane(mk[i].u_msg, 3) = KEYBOARD_MODIFIER_LEFTSHIFT
                  /\ mk[i].Kcode = HID_KEY_3
                  /\ HasKey(mk[i].u_msg, HID_KEY_3)

(***************************************************************************)
(* Properties of chords composed one after another, checked under Spec.    *)
(***************************************************************************)
\* The pass just made completed a chord while a modifier start was
\* pending: the chord after the one that set it, or a later one.
ChordAfterStart ==
    /\ poll.kind = "decode"
    /\ poll.pending # 0

\* C13 as claimed: PendingModifier lives for exactly one decode cycle.
\* After the next completed chord is decoded PendingModifier is clear,
\* whether that chord produced a key, another code, or no code at all.
C13_PendingClearedByNextChord == ChordAfterStart => pending_mods = 0

\* C13 as amended: PendingModifier lives until the next chord that
\* produces a code.  A chord that decodes to no code (an unmapped chord, a
\* shift toggle) does not reach make_usb_key and leaves PendingModifier as
\* it was; a chord that produces a modifier-start code replaces it by that
\* code's marker; a chord that produces any other code clears it, whether
\* or not the report found room in the relay.
C13_PendingClearedByNextCode ==
    ChordAfterStart =>
        /\ poll.called <=> poll.cc # 0
        /\ pending_mods =
              IF poll.cc = 0 THEN poll.pending
              ELSE IF poll.cc \in StartCodes THEN StartMarker(poll.cc)
              ELSE 0

\* An ALT start was pending when a Repeat chord (0x80) was decoded to no
\* code, and it is pending still.
C13_Witness ==
    /\ ChordAfterStart
    /\ poll.arg = 128
    /\ poll.cc = 0
    /\ poll.pending = HID_KEY_ALT_LEFT
    /\ pending_mods = HID_KEY_ALT_LEFT
    /\ tally.decodes = 2

(***************************************************************************)
(* Properties of the whole path, checked under SpecLive.                   *)
(***************************************************************************)
\* The report of an un-shifted 'a': its key code of the ASCII table, no
\* modifier.
ReportOfA == PlainWord(AsciiKey(97), 0)

\* A press-release cycle with mask 0x0C has just been decoded with all
\* shift flags Off, nothing pending and the relay empty.
DecodedChordA ==
    /\ poll.kind = "decode"
    /\ poll.arg = 12
    /\ dec.pre.CAPS = 0
    /\ dec.pre.NUM_LK = 0
    /\ dec.pre.SHFTE = 0
    /\ poll.pending = 0
    /\ poll.fifo = <<>>

\* ... and its report is in the relay, the output queue being empty, when
\* hid_task has taken n non-zero words from kc_get so far.
ChordAInRelay(n) ==
    /\ DecodedChordA
    /\ fifo = <<poll.u_msg>>
    /\ kc_in = kc_out
    /\ hid.n = n

\* The next non-zero word kc_get returns after those n is the report of
\* 'a'.
ChordAReturned(n) ==
    /\ hid.n = n + 1
    /\ hid.btn = ReportOfA

\* C17: End-to-end.  With all shift flags Off, no PendingModifier, an
\* empty relay and an empty output queue, a press-release cycle whose mask
\* is 0x0C decodes to 'a' and composes to the report with the ASCII-table
\* key code of 'a' and modifier lane 0, which is pushed to the relay; and
\* with the reporting loop scheduled fairly that report is eventually the
\* next word kc_get returns.
C17_EndToEnd ==
    /\ [](DecodedChordA =>
             /\ poll.cc = 97
             /\ poll.u_msg = ReportOfA
             /\ Lane(poll.u_msg, 3) = 0
             /\ HasKey(poll.u_msg, conv_table[97 + 1][2])
             /\ poll.sent)
    /\ \A n \in 0..MaxChords : ChordAInRelay(n) ~> ChordAReturned(n)

\* hid_task has taken the report of a second 'a' chord from kc_get, after
\* the report of the first.
C17_Witness ==
    /\ DecodedChordA
    /\ tally.decodes = 2
    /\ qh.puts = <<ReportOfA, ReportOfA>>
    /\ hid.n = 2
    /\ hid.btn = ReportOfA

\* The words make_usb_key has pushed to the relay, oldest first
Pushed ==
    LET WasSent(r) == r.sent
        S == SelectSeq(mk, WasSent)
    IN  [i \in 1..Len(S) |-> S[i].u_msg]

\* The reports in the relay, oldest first: all of it, but for the ready
\* token while main has yet to take it.
InRelay == IF mpc = "wait" /\ fifo # <<>> THEN Tail(fifo) ELSE fifo

NonSentinel(sq) ==
    LET NotZero(v) == v # 0
    IN  SelectSeq(sq, NotZero)

\* The sequence a is the beginning of the sequence b.
IsPrefix(a, b) == Len(a) <= Len(b) /\ SubSeq(b, 1, Len(a)) = a

\* C19: Output Queue order.  After any interleaving of kc_put and kc_get
\* calls the non-sentinel values kc_get has returned are, in order, the
\* first of the values kc_put accepted: none is returned twice and none is
\* overtaken by a later one.
C19_QueueOrder == IsPrefix(NonSentinel(qh.gets), qh.stored)

\* Puts and gets interleaved: kc_get returned the sentinel, then values
\* put after that, while later puts were still queued and one was dropped.
C19_Witness ==
    /\ qh.phase = "mixed"
    /\ qh.gets = <<0, 1, 2, 3>>
    /\ Len(qh.stored) = 9
    /\ Len(qh.puts) = 10

\* The reports in the queue, oldest first: kc_buf from kc_out up to kc_in
Queued ==
    [i \in 1..((kc_in + KC_SZ - kc_out) % KC_SZ) |->
        kc_buf[(kc_out + i - 1) % KC_SZ]]

\* A step that is a kc_put call on the full queue
PutOnFull ==
    /\ Len(Queued) = KC_SZ - 1
    /\ Len(qh'.puts) = Len(qh.puts) + 1

\* A step that is a kc_get call on a queue that is not empty
GetFromQueued ==
    /\ Queued # <<>>
    /\ Len(qh'.gets) = Len(qh.gets) + 1

\* C20: kc_put on a full Output Queue drops only the incoming report.
\* kc_in, kc_out and every slot of kc_buf are unchanged by the call, so
\* the reports queued stay queued in their order; each later kc_get
\* returns the oldest of them and removes it; and so, at every moment, the
\* values accepted are those already returned followed by those queued.
C20_FullPutDropsIncoming ==
    /\ [][PutOnFull =>
             /\ UNCHANGED <<kc_buf, kc_in, kc_out>>
             /\ Queued' = Queued
             /\ qh'.stored = qh.stored]_vars
    /\ [][GetFromQueued =>
             /\ qh'.gets = Append(qh.gets, Head(Queued))
             /\ Queued' = Tail(Queued)]_vars
    /\ [](qh.stored = NonSentinel(qh.gets) \o Queued)

\* Eight puts filled the queue and lost the eighth; the seven queued came
\* back in put order and the queue is empty.
C20_Witness ==
    /\ PutsThenGets(8)
    /\ qh.stored = <<1, 2, 3, 4, 5, 6, 7>>
    /\ qh.gets = qh.stored
    /\ Queued = <<>>

(***************************************************************************)
(* Properties of the reporting loop, checked under SpecCompose.            *)
(***************************************************************************)
\* C21: kc_get returns zero if and only if the Output Queue is empty.
\* Every word make_usb_key pushed, every word passed to kc_put and every
\* word in the queue is non-zero; the word kc_get returned to hid_task is
\* zero exactly when the queue was empty at the call; and a pass of
\* hid_task over the empty queue leaves kc_in and kc_out as they were.
C21_ZeroMeansEmpty ==
    /\ [](/\ \A i \in 1..Len(mk) : mk[i].sent => mk[i].u_msg # 0
          /\ \A i \in 1..Len(qh.puts) : qh.puts[i] # 0
          /\ \A i \in 1..Len(Queued) : Queued[i] # 0
          /\ hid.empty <=> hid.btn = 0)
    /\ [][mpc = "hid" /\ kc_in = kc_out =>
             kc_in' = kc_in /\ kc_out' = kc_out]_vars

\* hid_task has taken two reports from the queue and then found it empty:
\* kc_get returned 0 and the key-up report was made, with kc_out moved on
\* by two and level with kc_in.
C21_Witness ==
    /\ hid.n = 2
    /\ hid.empty
    /\ hid.btn = 0
    /\ hid.did = "up"
    /\ kc_out = 2
    /\ kc_in = 2

\* The bits of the modifier byte that stand for the pending start p.
PendingBits(p) ==
    CASE p = HID_KEY_CONTROL_LEFT -> KEYBOARD_MODIFIER_LEFTCTRL
      [] p = HID_KEY_ALT_LEFT -> KEYBOARD_MODIFIER_LEFTALT
      [] p = HID_KEY_GUI_LEFT -> KEYBOARD_MODIFIER_LEFTGUI
      [] p = A_C -> KEYBOARD_MODIFIER_LEFTCTRL + KEYBOARD_MODIFIER_LEFTALT

\* A step that is a call of make_usb_key composing a key while a start is
\* pending.
KeyOnPending ==
    /\ Len(mk') = Len(mk) + 1
    /\ pending_mods # 0
    /\ mk'[Len(mk')].Kcode # 0

\* C27: chained reports carry only the pending modifier's bits.  When
\* make_usb_key composes a key while a PendingModifier is outstanding, the
\* modifier lane of the report is exactly the pending modifier's bit(s)
\* (Ctrl, Alt, GUI, or Ctrl|Alt), whatever the code's own modifier is
\* (left Shift for a shifted character or the pound sign, GUI for the
\* standalone GUI key, the Euro modifier); that report is the word pushed
\* to the relay when it has room, and PendingModifier is clear afterwards.
C27_ChainedCarriesPendingBitsOnly ==
    [][KeyOnPending =>
          LET u == mk'[Len(mk')].u_msg
          IN  /\ pending_mods \in {HID_KEY_CONTROL_LEFT, HID_KEY_ALT_LEFT,
                                   HID_KEY_GUI_LEFT, A_C}
              /\ Lane(u, 3) = PendingBits(pending_mods)
              /\ fifo' = IF multicore_fifo_wready(fifo)
                         THEN Append(fifo, u) ELSE fifo
              /\ pending_mods' = 0]_vars

\* Control, then 'A': the report of 'A' was pushed with the Ctrl bit alone
\* in its modifier lane, the left Shift of 'A' left out.
C27_Witness ==
    /\ Len(mk) >= 2
    /\ mk[1].cc = CTR
    /\ mk[2].cc = 65
    /\ Classify(65).Mods = KEYBOARD_MODIFIER_LEFTSHIFT
    /\ mk[2].sent
    /\ Lane(mk[2].u_msg, 3) = KEYBOARD_MODIFIER_LEFTCTRL
    /\ ~HasMod(mk[2].u_msg, KEYBOARD_MODIFIER_LEFTSHIFT)

(***************************************************************************)
(* Properties of the shift flags from one chord to the next, checked under *)
(* SpecDecode.                                                             *)
(***************************************************************************)
\* The last decode returned an output code.
CodeProduced == dec.bits # 0 /\ dec.cc # 0

\* The last chord decoded had Num as its only modifier.
IsNumChord(bits) == HighNibble(bits) = NUM_BIT

\* C22 as claimed: a Transient shift applies to exactly one subsequent
\* chord.  Whenever Caps, NumLock or EShift is Transient and the next chord
\* decoded produces an output code, that flag is Off after the decode.
C22_TransientClearedByAnyCode ==
    CodeProduced =>
        /\ dec.pre.CAPS = 1 => CAPS = 0
        /\ dec.pre.NUM_LK = 1 => NUM_LK = 0
        /\ dec.pre.SHFTE = 1 => SHFTE = 0

\* C22 as amended: a Transient shift is cleared only by a chord that uses
\* it.  When the next chord decoded produces an output code, a Transient
\* EShift is Off after the decode if the chord is a character chord or a
\* Num chord, a Transient NumLock if the chord is a character chord and
\* EShift was Off, a Transient Caps if the chord is a character chord and
\* EShift and NumLock were Off; in every other case the flag is still
\* Transient after the decode.
C22_TransientClearedByItsChord ==
    CodeProduced =>
        /\ dec.pre.SHFTE = 1 =>
              SHFTE = IF IsCharChord(dec.bits) \/ IsNumChord(dec.bits)
                      THEN 0 ELSE 1
        /\ dec.pre.NUM_LK = 1 =>
              NUM_LK = IF IsCharChord(dec.bits) /\ dec.pre.SHFTE = 0
                       THEN 0 ELSE 1
        /\ dec.pre.CAPS = 1 =>
              CAPS = IF /\ IsCharChord(dec.bits)
                        /\ dec.pre.SHFTE = 0
                        /\ dec.pre.NUM_LK = 0
                     THEN 0 ELSE 1

\* With Caps, NumLock and EShift all Transient the chord 'index finger'
\* (0x08) was decoded: it gave a code, EShift is Off, and NumLock and Caps
\* are still Transient.
C22_Witness ==
    /\ dec.bits = 8
    /\ dec.cc # 0
    /\ dec.pre.CAPS = 1
    /\ dec.pre.NUM_LK = 1
    /\ dec.pre.SHFTE = 1
    /\ SHFTE = 0
    /\ NUM_LK = 1
    /\ CAPS = 1

\* The tier a character chord is decoded in when the flags are st:
\* 3 EShift, 2 NumLock, 1 Caps, 0 plain.
Tier(st) ==
    IF st.SHFTE # 0 THEN 3
    ELSE IF st.NUM_LK # 0 THEN 2
    ELSE IF st.CAPS # 0 THEN 1
    ELSE 0

\* The code tier t gives the character chord bits.
TierCode(bits, t) ==
    LET i == LowNibble(bits) + 1
    IN  IF HighNibble(bits) = THUMB_BIT
        THEN CASE t = 3 -> eThmb_codes[i]
               [] t = 2 -> numbr_codes[i]
               [] t = 1 -> make_upper(thumb_codes[i])
               [] t = 0 -> thumb_codes[i]
        ELSE CASE t = 3 -> eShft_codes[i]
               [] t = 2 -> nShft_codes[i]
               [] t = 1 -> make_upper(basic_codes[i])
               [] t = 0 -> basic_codes[i]

\* A flag after the chord that used it: Transient to Off, Locked stays.
Consumed(v) == IF v = 1 THEN 0 ELSE v

\* C24: shift priority cascade.  A character chord (fingers only, or Thumb
\* with or without fingers) is decoded in exactly one tier, the highest of
\* EShift > NumLock > Caps > plain whose flag is set: the code returned is
\* that tier's table entry (uppercased in the Caps tier), that flag alone
\* is consumed (Transient to Off, Locked stays Locked) and the other flags
\* are as they were.
C24_ShiftPriorityCascade ==
    IsCharChord(dec.bits) =>
        LET t == Tier(dec.pre)
        IN  /\ dec.cc = TierCode(dec.bits, t)
            /\ SHFTE = IF t = 3 THEN Consumed(dec.pre.SHFTE) ELSE dec.pre.SHFTE
            /\ NUM_LK = IF t = 2 THEN Consumed(dec.pre.NUM_LK)
                        ELSE dec.pre.NUM_LK
            /\ CAPS = IF t = 1 THEN Consumed(dec.pre.CAPS) ELSE dec.pre.CAPS
            /\ LCL_SHFT = dec.pre.LCL_SHFT

\* With EShift Transient, NumLock Locked and Caps Transient the chord Thumb
\* + index finger (0x18) was decoded in the EShift tier: EShift is Off,
\* NumLock still Locked and Caps still Transient.
C24_Witness ==
    /\ dec.bits = 24
    /\ dec.pre.SHFTE = 1
    /\ dec.pre.NUM_LK = 2
    /\ dec.pre.CAPS = 1
    /\ dec.cc = eThmb_codes[9]
    /\ SHFTE = 0
    /\ NUM_LK = 2
    /\ CAPS = 1

\* decode_bits on each of the 256 masks in each flag state: a char value
\* is returned (0: no code) and the flags after are flag values again.
DecodeTotal ==
    \A bits \in 0..255 : \A st \in FlagStates :
        LET r == decode_bits(bits, st)
        IN  r.cc \in 0..255 /\ r.st \in FlagStates

\* The code decode_bits returns and the three flags after it are the same
\* whatever LCL_SHFT was.
DecodeReadsThreeFlags ==
    \A bits \in 0..255 : \A st \in FlagStates :
        LET r == decode_bits(bits, st)
            o == decode_bits(bits, [st EXCEPT !.LCL_SHFT = 1 - st.LCL_SHFT])
        IN  /\ r.cc = o.cc
            /\ r.st.CAPS = o.st.CAPS
            /\ r.st.NUM_LK = o.st.NUM_LK
            /\ r.st.SHFTE = o.st.SHFTE

\* C25: decoder totality and state domain.  For each of the 256 masks and
\* each shift state decode_bits gives a result (a code, or 0 for none) and
\* a next state; in every reachable state Caps and NumLock are Off (0),
\* Transient (1) or Locked (2) and EShift is Off or Transient, never
\* Locked; and the result is a function of the mask and the three flags.
C25_DecoderTotalAndTyped ==
    /\ DecodeTotal
    /\ DecodeReadsThreeFlags
    /\ CAPS \in 0..2
    /\ NUM_LK \in 0..2
    /\ SHFTE \in 0..1
    /\ dec.cc \in 0..255
    /\ decode_bits(dec.bits, dec.pre) = Ret(dec.cc, ShiftSt)

\* With Caps and NumLock Locked, Num+Caps-alone (0x60) was decoded twice in
\* a row: EShift is Transient, not Locked.
C25_Witness ==
    /\ dec.bits = 96
    /\ run.n = 2
    /\ dec.pre.SHFTE = 1
    /\ SHFTE = 1
    /\ CAPS = 2
    /\ NUM_LK = 2

(***************************************************************************)
(* Properties of the USB reporter, checked under SpecReport.               *)
(***************************************************************************)
\* C23: USB reporter key-down / key-up.  A pass of hid_task takes at most
\* one report out of the Output Queue, and every key-down report it sends
\* is followed by a later all-zero key-up report (the endpoint being ready
\* again and again and main's loop running on).
C23_KeyDownThenKeyUp ==
    /\ [][mpc = "hid" => Len(Queued') >= Len(Queued) - 1]_vars
    /\ (hid.did = "down" /\ hid.report # NoKeys)
          ~> (hid.did = "up" /\ hid.report = NoKeys)

\* Two chords were typed and reported key-down one after the other, and
\* the pass of hid_task that found the queue empty after them has made the
\* key-up report.
C23_Witness ==
    /\ tally.decodes = 2
    /\ hid.n = 2
    /\ hid.did = "up"
    /\ hid.report = NoKeys
    /\ ~has_keyboard_key

(***************************************************************************)
(* Properties of the start of the two cores, checked under Spec.           *)
(***************************************************************************)
\* The sequence sq holds the value v.
Holds(sq, v) == \E i \in 1..Len(sq) : sq[i] = v

\* C26: startup handshake.  The ready token keyboard_task pushes before
\* its scan loop is the word main's blocking pop takes before main's loop:
\* until then the token is the oldest word in the relay, main has passed
\* nothing to kc_put and the Output Queue is empty; main is in its loop
\* only when the scanner has started and the pop has returned the token;
\* and the token is never passed to kc_put nor found in the Output Queue.
C26_StartupHandshake ==
    /\ mpc = "wait" =>
          /\ g = -1
          /\ qh.puts = <<>>
          /\ Queued = <<>>
          /\ kpc = "scan" => fifo # <<>> /\ Head(fifo) = READY_TOKEN
    /\ mpc # "wait" =>
          /\ kpc = "scan"
          /\ g = READY_TOKEN
          /\ ~Holds(fifo, READY_TOKEN)
    /\ kpc = "start" => fifo = <<>>
    /\ ~Holds(qh.puts, READY_TOKEN)
    /\ ~Holds(Queued, READY_TOKEN)

\* After the handshake two chords were typed and main has passed both
\* reports to kc_put; the word the first pop returned was the token.
C26_Witness ==
    /\ g = READY_TOKEN
    /\ mpc # "wait"
    /\ tally.decodes = 2
    /\ Len(qh.puts) = 2
    /\ ~Holds(qh.puts, READY_TOKEN)

====
